---- MODULE Spec2Model ----
(***************************************************************************)
(* A model of the name-section codec of casper-wasm:                       *)
(*   src/src/io.rs                    the byte-stream abstraction (Cursor, *)
(*                                    the blanket impls for std streams)   *)
(*   src/src/elements/name_section.rs NameSection and its subsections      *)
(* The variable-length integers, String, IndexMap and Module live in files *)
(* of the repository that are not part of the source set; they are         *)
(* modelled from the specification (sections 4.2, 4.3, 3, 6).              *)
(*                                                                         *)
(* Integer widths are scaled down: a machine word (usize, u64, i64) has    *)
(* WordBits bits, a u32 has U32Bits bits and a varint group has GroupBits  *)
(* bits (64, 32 and 7 in the program).  The tests of io.rs (seeking by     *)
(* i64::MAX twice succeeds) fix usize to the width of i64.                 *)
(***************************************************************************)
EXTENDS Integers, Sequences, FiniteSets, TLC

VARIABLES
    module,            \* the Module handed to the decoder as context
    rdr,               \* the reader: [kind, inner, pos, fail_at]
    overflow_checks,   \* build profile: are arithmetic overflow checks on
    module_name,       \* NameSection::deserialize: let mut module_name
    function_names,    \* NameSection::deserialize: let mut function_names
    local_names,       \* NameSection::deserialize: let mut local_names
    result,            \* outcome of the call in progress
    headers,           \* history: the subsection headers read so far
    original,          \* the NameSection value handed to serialize
    last_op            \* history: the last Cursor operation and its outcome

vars == <<module, rdr, overflow_checks, module_name, function_names,
          local_names, result, headers, original, last_op>>

----------------------------------------------------------------------------
(* Bounds and scaled widths *)

WordBits == 8
U32Bits == 6
GroupBits == 3
MaxLen == 5
MaxSubsections == 3
MaxInner == 3
MaxCount == 2
MaxIndex == 2

RECURSIVE Pow2(_)
Pow2(n) == IF n = 0 THEN 1 ELSE 2 * Pow2(n - 1)

UsizeMax == Pow2(WordBits) - 1
I64Max == Pow2(WordBits - 1) - 1
I64Min == 0 - Pow2(WordBits - 1)
U32Max == Pow2(U32Bits) - 1
Radix == Pow2(GroupBits)
VarUint32Bytes == (U32Bits + GroupBits - 1) \div GroupBits

RECURSIVE SeqsUpTo(_, _)
SeqsUpTo(S, n) ==
    IF n = 0 THEN {<<>>}
    ELSE LET shorter == SeqsUpTo(S, n - 1)
         IN  shorter \cup {Append(s, x) : s \in shorter, x \in S}

----------------------------------------------------------------------------
(* Options and results *)

None == <<>>
Some(x) == <<x>>
is_some(o) == o # <<>>
unwrap(o) == o[1]

Ok(v, p) == [st |-> "Ok", err |-> "", tag |-> 0, val |-> v, pos |-> p]
Err(e, p) == [st |-> "Err", err |-> e, tag |-> 0, val |-> <<>>, pos |-> p]
ErrTag(e, t, p) == [st |-> "Err", err |-> e, tag |-> t, val |-> <<>>, pos |-> p]
Panic(p) == [st |-> "panic", err |-> "", tag |-> 0, val |-> <<>>, pos |-> p]
Fail(r) == [r EXCEPT !.val = <<>>]

----------------------------------------------------------------------------
(* io.rs: Cursor *)

Cursor_new(inner) == [kind |-> "cursor", inner |-> inner, pos |-> 0, fail_at |-> {}]

\* impl Read for Cursor: read(buf) with buf.len() = requested.
\* `slice.len() - self.pos` is an unchecked usize subtraction: it panics when
\* overflow checks are on and wraps when they are off; the slice index
\* panics when its range is not inside the slice.
Cursor_read(r, requested) ==
    LET len       == Len(r.inner)
        underflow == r.pos > len
        remainder == IF underflow THEN len - r.pos + UsizeMax + 1 ELSE len - r.pos
        sum       == r.pos + requested
        end       == IF sum > UsizeMax THEN sum - UsizeMax - 1 ELSE sum
    IN  IF underflow /\ overflow_checks THEN Panic(r.pos)
        ELSE IF requested > remainder THEN Err("UnexpectedEof", r.pos)
        ELSE IF sum > UsizeMax /\ overflow_checks THEN Panic(r.pos)
        ELSE IF r.pos > end \/ end > len THEN Panic(r.pos)
        ELSE Ok(SubSeq(r.inner, r.pos + 1, end), end)

\* impl Seek for Cursor: seek_relative(offset: i64).  offset.try_into::<usize>()
\* fails for every negative offset; checked_add fails past usize::MAX.
Cursor_seek_relative(r, offset) ==
    IF offset < 0 \/ offset > UsizeMax THEN Err("InvalidInput", r.pos)
    ELSE IF r.pos + offset > UsizeMax THEN Err("InvalidInput", r.pos)
    ELSE Ok(<<>>, r.pos + offset)

\* impl Seek for Cursor: stream_position, stream_len (usize -> u64 never fails
\* when both have the same width)
Cursor_stream_position(r) == Ok(r.pos, r.pos)
Cursor_stream_len(r) == Ok(Len(r.inner), r.pos)

----------------------------------------------------------------------------
(* io.rs: the blanket impls for std::io streams.  read_exact fails with the *)
(* stream's own error; fail_at is the set of offsets at which the stream    *)
(* reports an I/O failure.  Reading past the end is an error of the stream  *)
(* too (io::ErrorKind::UnexpectedEof wrapped in Error::Io).                 *)

Std_read(r, requested) ==
    LET len == Len(r.inner)
    IN  IF requested = 0 THEN Ok(<<>>, r.pos)
        ELSE IF \E k \in r.fail_at : r.pos <= k /\ k < r.pos + requested
             THEN Err("Io", r.pos)
        ELSE IF r.pos + requested > len THEN Err("Io", r.pos)
        ELSE Ok(SubSeq(r.inner, r.pos + 1, r.pos + requested), r.pos + requested)

Std_seek_relative(r, offset) ==
    IF r.pos + offset < 0 \/ r.pos + offset > UsizeMax THEN Err("Io", r.pos)
    ELSE Ok(<<>>, r.pos + offset)

\* trait Read / trait Seek, dispatched on the reader's type
read(r, n) == IF r.kind = "cursor" THEN Cursor_read(r, n) ELSE Std_read(r, n)
seek_relative(r, offset) ==
    IF r.kind = "cursor" THEN Cursor_seek_relative(r, offset)
    ELSE Std_seek_relative(r, offset)
stream_position(r) == Cursor_stream_position(r)
stream_len(r) == Cursor_stream_len(r)

At(r, p) == [r EXCEPT !.pos = p]

----------------------------------------------------------------------------
(* Variable-length integers and strings (specification 4.2, 6) *)

\* VarUint7: one byte, handed back as read.  The regression test of
\* name_section.rs feeds the tag byte 0xFF and expects the skip arm to run,
\* so a tag byte with the high bit set decodes to a tag.
VarUint7_from(rd) == IF rd.st # "Ok" THEN Fail(rd) ELSE Ok(rd.val[1], rd.pos)
VarUint7_deserialize(r, p) == VarUint7_from(read(At(r, p), 1))

VarUint7_serialize(v) == <<v>>

\* VarUint32: groups of GroupBits bits, least significant first, the high
\* bit of a byte says another byte follows; at most VarUint32Bytes bytes and
\* a value of at most U32Max.
RECURSIVE VarUint32_loop(_, _, _, _)
RECURSIVE VarUint32_byte(_, _, _, _)
RECURSIVE VarUint32_group(_, _, _, _, _)
VarUint32_loop(r, p, count, acc) ==
    IF count >= VarUint32Bytes THEN Err("InvalidVarUint32", p)
    ELSE VarUint32_byte(r, count, acc, read(At(r, p), 1))

\* the byte just read: its low bits are the next group of the value
VarUint32_byte(r, count, acc, rd) ==
    IF rd.st # "Ok" THEN Fail(rd)
    ELSE VarUint32_group(r, count, rd.pos, rd.val[1],
                         acc + (rd.val[1] % Radix) * Pow2(GroupBits * count))

VarUint32_group(r, count, p, b, v) ==
    IF b < Radix
    THEN IF v > U32Max THEN Err("InvalidVarUint32", p) ELSE Ok(v, p)
    ELSE VarUint32_loop(r, p, count + 1, v)

VarUint32_deserialize(r, p) == VarUint32_loop(r, p, 0, 0)

RECURSIVE VarUint32_serialize(_)
VarUint32_serialize(v) ==
    IF v < Radix THEN <<v>>
    ELSE <<(v % Radix) + Radix>> \o VarUint32_serialize(v \div Radix)

\* String: a VarUint32 length, then that many bytes of UTF-8.  A byte with
\* the high bit set on its own is not UTF-8; the inputs of this model hold no
\* multi-byte sequences.
is_utf8(bytes) == \A i \in 1..Len(bytes) : bytes[i] < Radix

String_from_utf8(rd) ==
    IF rd.st # "Ok" THEN Fail(rd)
    ELSE IF ~is_utf8(rd.val) THEN Err("NonUtf8String", rd.pos)
    ELSE Ok(rd.val, rd.pos)

String_bytes(r, length) ==
    IF length.st # "Ok" THEN Fail(length)
    ELSE String_from_utf8(read(At(r, length.pos), length.val))

String_deserialize(r, p) == String_bytes(r, VarUint32_deserialize(r, p))

String_serialize(s) ==
    IF Len(s) > U32Max THEN Err("InvalidVarInt32", 0)
    ELSE Ok(VarUint32_serialize(Len(s)) \o s, 0)

----------------------------------------------------------------------------
(* IndexMap (specification 4.3): a map from a u32 index to a value, here a  *)
(* function on a finite set of indices.  kind "names" is IndexMap<String>   *)
(* (NameMap), kind "locals" is IndexMap<NameMap>.                           *)

IndexMap_default == <<>>
IndexMap_insert(map, idx, v) ==
    [i \in (DOMAIN map) \cup {idx} |-> IF i = idx THEN v ELSE map[i]]

RECURSIVE IndexMap_entries(_, _, _, _, _, _, _)
RECURSIVE IndexMap_index(_, _, _, _, _, _, _)
RECURSIVE IndexMap_value(_, _, _, _, _, _, _, _)
RECURSIVE IndexMap_count(_, _, _, _, _)
RECURSIVE IndexMap_deserialize(_, _, _, _, _)

\* one entry per round: the index, checked against the bound and against
\* the indices already seen, then the value
IndexMap_entries(kind, bound, inner_bound, r, p, remaining, map) ==
    IF remaining = 0 THEN Ok(map, p)
    ELSE IndexMap_index(kind, bound, inner_bound, r, remaining, map,
                        VarUint32_deserialize(r, p))

IndexMap_index(kind, bound, inner_bound, r, remaining, map, idx) ==
    IF idx.st # "Ok" THEN Fail(idx)
    ELSE IF idx.val >= bound THEN Err("IndexOutOfBounds", idx.pos)
    ELSE IF idx.val \in DOMAIN map THEN Err("DuplicateIndex", idx.pos)
    ELSE IndexMap_value(kind, bound, inner_bound, r, remaining, map, idx.val,
            IF kind = "names"
            THEN String_deserialize(r, idx.pos)
            ELSE IndexMap_deserialize("names", inner_bound, 0, r, idx.pos))

IndexMap_value(kind, bound, inner_bound, r, remaining, map, idx, v) ==
    IF v.st # "Ok" THEN Fail(v)
    ELSE IndexMap_entries(kind, bound, inner_bound, r, v.pos, remaining - 1,
                          IndexMap_insert(map, idx, v.val))

IndexMap_count(kind, bound, inner_bound, r, len) ==
    IF len.st # "Ok" THEN Fail(len)
    ELSE IndexMap_entries(kind, bound, inner_bound, r, len.pos, len.val,
                          IndexMap_default)

\* IndexMap::deserialize / deserialize_with: the entry count, then the entries
IndexMap_deserialize(kind, bound, inner_bound, r, p) ==
    IndexMap_count(kind, bound, inner_bound, r, VarUint32_deserialize(r, p))

MinOf(S) == CHOOSE x \in S : \A y \in S : x <= y

\* Serialize for IndexMap: the count, then (index, value) in ascending order
RECURSIVE IndexMap_serialize_entries(_, _, _)
RECURSIVE IndexMap_serialize_entry(_, _, _, _)
IndexMap_serialize_entries(kind, map, todo) ==
    IF todo = {} THEN <<>>
    ELSE IndexMap_serialize_entry(kind, map, todo, MinOf(todo))

IndexMap_serialize_entry(kind, map, todo, idx) ==
    VarUint32_serialize(idx)
    \o (IF kind = "names"
        THEN VarUint32_serialize(Len(map[idx])) \o map[idx]
        ELSE VarUint32_serialize(Cardinality(DOMAIN map[idx]))
             \o IndexMap_serialize_entries("names", map[idx], DOMAIN map[idx]))
    \o IndexMap_serialize_entries(kind, map, todo \ {idx})

IndexMap_serialize(kind, map) ==
    VarUint32_serialize(Cardinality(DOMAIN map))
    \o IndexMap_serialize_entries(kind, map, DOMAIN map)

----------------------------------------------------------------------------
(* Module (specification 3): what the name section reads of it.             *)
(*   type_section   None or Some(sequence of parameter counts)              *)
(*   import_funcs   the type indices of the imported functions              *)
(*   function_section the type indices of the functions defined here        *)
(*   code_section   None or Some(sequence of bodies), a body being the      *)
(*                  sequence of the counts of its Local entries             *)

functions_space(m) == Len(m.import_funcs) + Len(m.function_section)

RECURSIVE SumSeq(_)
SumSeq(s) == IF s = <<>> THEN 0 ELSE s[1] + SumSeq(Tail(s))

\* Iterator::max().unwrap_or(0)
max_or_0(s) ==
    IF s = <<>> THEN 0
    ELSE CHOOSE x \in {s[i] : i \in 1..Len(s)} : \A i \in 1..Len(s) : s[i] <= x

----------------------------------------------------------------------------
(* name_section.rs: the subsections *)

NAME_TYPE_MODULE == 0
NAME_TYPE_FUNCTION == 1
NAME_TYPE_LOCAL == 2

\* impl Deserialize for ModuleNameSubsection
ModuleNameSubsection_deserialize(r, p) == String_deserialize(r, p)

\* a bound that is one too large
FunctionNameSubsection_deserialize_off_by_one(m, r, p) ==
    IndexMap_deserialize("names", functions_space(m) + 1, 0, r, p)

\* FunctionNameSubsection::deserialize
FunctionNameSubsection_deserialize(m, r, p) ==
    IndexMap_deserialize("names", functions_space(m), 0, r, p)

\* LocalNameSubsection::deserialize: max_signature_args, max_locals
max_signature_args(m) ==
    IF is_some(m.type_section) THEN max_or_0(unwrap(m.type_section)) ELSE 0

max_locals(m) ==
    IF is_some(m.code_section)
    THEN LET bodies == unwrap(m.code_section)
         IN  max_or_0([i \in 1..Len(bodies) |-> SumSeq(bodies[i])])
    ELSE 0

\* the parameters of the signature a function refers to
params_of(m, ref) == unwrap(m.type_section)[ref + 1]

\* the largest parameters + locals of any one function
max_space_per_function(m) ==
    LET imported == {params_of(m, m.import_funcs[i]) : i \in 1..Len(m.import_funcs)}
        defined  == {params_of(m, m.function_section[i])
                       + SumSeq(unwrap(m.code_section)[i]) :
                     i \in 1..Len(m.function_section)}
        all      == imported \cup defined \cup {0}
    IN  CHOOSE x \in all : \A y \in all : y <= x

max_space(m) == max_signature_args(m) + max_locals(m)

LocalNameSubsection_deserialize(m, r, p) ==
    IndexMap_deserialize("locals", functions_space(m), max_space(m), r, p)

----------------------------------------------------------------------------
(* name_section.rs: NameSection::deserialize *)

\* the `_` arm: skip `size` bytes, then force an EOF error when the seek went
\* past the length of the stream
\* a skip that trusts the seek: no comparison of the position with the length
skip_check_trusting(r, sk) ==
    IF sk.st # "Ok" THEN Fail(sk) ELSE Ok(<<>>, sk.pos)

skip_check(r, sk) ==
    IF sk.st # "Ok" THEN Fail(sk)
    ELSE IF stream_position(At(r, sk.pos)).val > stream_len(r).val
         THEN Err("UnexpectedEof", sk.pos)
    ELSE Ok(<<>>, sk.pos)

skip_subsection(r, p, size) ==
    IF size > I64Max THEN Err("UnexpectedEof", p)
    ELSE skip_check(r, seek_relative(At(r, p), size))

\* an arm that lets a second local-name subsection replace the first
subsection_arm_last_wins(m, r, p, subsection_type, size, mn, fn, ln) ==
    IF subsection_type = NAME_TYPE_MODULE
    THEN IF is_some(mn)
         THEN ErrTag("DuplicatedNameSubsections", NAME_TYPE_FUNCTION, p)
         ELSE ModuleNameSubsection_deserialize(r, p)
    ELSE IF subsection_type = NAME_TYPE_FUNCTION
    THEN IF is_some(fn)
         THEN ErrTag("DuplicatedNameSubsections", NAME_TYPE_FUNCTION, p)
         ELSE FunctionNameSubsection_deserialize(m, r, p)
    ELSE IF subsection_type = NAME_TYPE_LOCAL
    THEN LocalNameSubsection_deserialize(m, r, p)
    ELSE skip_subsection(r, p, size)

\* match subsection_type { ... }: the value of the arm is the subsection it
\* decoded (val), the position it left the reader at, or the error
subsection_arm(m, r, p, subsection_type, size, mn, fn, ln) ==
    IF subsection_type = NAME_TYPE_MODULE
    THEN IF is_some(mn)
         THEN ErrTag("DuplicatedNameSubsections", NAME_TYPE_FUNCTION, p)
         ELSE ModuleNameSubsection_deserialize(r, p)
    ELSE IF subsection_type = NAME_TYPE_FUNCTION
    THEN IF is_some(fn)
         THEN ErrTag("DuplicatedNameSubsections", NAME_TYPE_FUNCTION, p)
         ELSE FunctionNameSubsection_deserialize(m, r, p)
    ELSE IF subsection_type = NAME_TYPE_LOCAL
    THEN IF is_some(ln)
         THEN ErrTag("DuplicatedNameSubsections", NAME_TYPE_LOCAL, p)
         ELSE LocalNameSubsection_deserialize(m, r, p)
    ELSE skip_subsection(r, p, size)

Outcome(x) == [st |-> x.st, err |-> x.err, tag |-> x.tag]
Running == [st |-> "running", err |-> "", tag |-> 0]
Idle == [st |-> "idle", err |-> "", tag |-> 0]

\* one round of `while let Ok(raw_subsection_type) = VarUint7::deserialize(rdr)`
\* or, when the tag cannot be read, the end of the loop and the Ok(Self {..})
Step(res, p, mn, fn, ln, h) ==
    [res |-> res, pos |-> p, mn |-> mn, fn |-> fn, ln |-> ln, hdr |-> h]

\* the arm is done: its subsection is recorded, or its error returned
iteration_arm(mn, fn, ln, subsection_type, size, start, b) ==
    IF b.st # "Ok"
    THEN Step(Outcome(b), b.pos, mn, fn, ln,
              Some([tag |-> subsection_type, size |-> size, start |-> start,
                    end |-> b.pos, ok |-> FALSE]))
    ELSE Step(Running, b.pos,
              IF subsection_type = NAME_TYPE_MODULE THEN Some(b.val) ELSE mn,
              IF subsection_type = NAME_TYPE_FUNCTION THEN Some(b.val) ELSE fn,
              IF subsection_type = NAME_TYPE_LOCAL THEN Some(b.val) ELSE ln,
              Some([tag |-> subsection_type, size |-> size, start |-> start,
                    end |-> b.pos, ok |-> TRUE]))

\* let size: usize = VarUint32::deserialize(rdr)?.into();
iteration_size(m, r, mn, fn, ln, subsection_type, s) ==
    IF s.st # "Ok" THEN Step(Outcome(s), s.pos, mn, fn, ln, None)
    ELSE iteration_arm(mn, fn, ln, subsection_type, s.val, s.pos,
            subsection_arm(m, r, s.pos, subsection_type, s.val, mn, fn, ln))

\* while let Ok(..): any failure to read the tag ends the loop
iteration_tag(m, r, mn, fn, ln, t) ==
    IF t.st = "panic" THEN Step(Outcome(t), t.pos, mn, fn, ln, None)
    ELSE IF t.st # "Ok" THEN Step(Outcome(Ok(<<>>, t.pos)), t.pos, mn, fn, ln, None)
    ELSE iteration_size(m, r, mn, fn, ln, t.val, VarUint32_deserialize(r, t.pos))

NameSection_iteration(m, r, mn, fn, ln) ==
    iteration_tag(m, r, mn, fn, ln, VarUint7_deserialize(r, r.pos))

----------------------------------------------------------------------------
(* name_section.rs: impl Serialize for NameSection *)

\* a frame without its size field
serialize_subsection_unsized(name_type, name_payload) ==
    IF Len(name_payload) > U32Max THEN Err("InvalidVarInt32", 0)
    ELSE Ok(VarUint7_serialize(name_type) \o name_payload, 0)

serialize_subsection(name_type, name_payload) ==
    IF Len(name_payload) > U32Max THEN Err("InvalidVarInt32", 0)
    ELSE Ok(VarUint7_serialize(name_type)
            \o VarUint32_serialize(Len(name_payload)) \o name_payload, 0)

\* impl Serialize for ModuleNameSubsection / FunctionNameSubsection /
\* LocalNameSubsection
ModuleNameSubsection_serialize(name) == String_serialize(name)
FunctionNameSubsection_serialize(names) == Ok(IndexMap_serialize("names", names), 0)
LocalNameSubsection_serialize(local_names_) == Ok(IndexMap_serialize("locals", local_names_), 0)

NameSection_new(mn, fn, ln) == [module |-> mn, functions |-> fn, locals |-> ln]

\* if let Some(..) = self.<field>: the payload in a buffer, then the frame
serialize_part(buffer, name_type) ==
    IF buffer.st # "Ok" THEN buffer ELSE serialize_subsection(name_type, buffer.val)

serialize_join(w1, w2, w3) ==
    IF w1.st # "Ok" THEN w1
    ELSE IF w2.st # "Ok" THEN w2
    ELSE IF w3.st # "Ok" THEN w3
    ELSE Ok(w1.val \o w2.val \o w3.val, 0)

NameSection_serialize(self) ==
    serialize_join(
        IF is_some(self.module)
        THEN serialize_part(ModuleNameSubsection_serialize(unwrap(self.module)),
                            NAME_TYPE_MODULE)
        ELSE Ok(<<>>, 0),
        IF is_some(self.functions)
        THEN serialize_part(FunctionNameSubsection_serialize(unwrap(self.functions)),
                            NAME_TYPE_FUNCTION)
        ELSE Ok(<<>>, 0),
        IF is_some(self.locals)
        THEN serialize_part(LocalNameSubsection_serialize(unwrap(self.locals)),
                            NAME_TYPE_LOCAL)
        ELSE Ok(<<>>, 0))

----------------------------------------------------------------------------
(* Inputs *)

\* bytes of the raw input streams: the three known tags (also small sizes,
\* counts, indices and characters) and a byte with the high bit set (an
\* unknown tag, a varint group with a continuation, a non-ASCII character)
InputBytes == {NAME_TYPE_MODULE, NAME_TYPE_FUNCTION, NAME_TYPE_LOCAL, Radix}

\* whole subsections: an empty module name, an empty function-name map, an
\* empty local-name map, an unknown subsection of one byte
Chunks == {<<NAME_TYPE_MODULE, 1, 0>>, <<NAME_TYPE_FUNCTION, 1, 0>>,
           <<NAME_TYPE_LOCAL, 1, 0>>, <<Radix, 1, 0>>}

RECURSIVE ChunkStreams(_)
ChunkStreams(n) ==
    IF n = 0 THEN {<<>>}
    ELSE LET shorter == ChunkStreams(n - 1)
         IN  shorter \cup {s \o c : s \in shorter, c \in Chunks}

\* the input of deserialize_invalid_name_section: the tag u8::MAX, the size
\* u32::MAX, then zero bytes
RegressionStreams ==
    {<<2 * Radix - 1>> \o VarUint32_serialize(U32Max) \o [i \in 1..n |-> 0] :
        n \in 0..MaxLen}

RawStreams ==
    SeqsUpTo(InputBytes, MaxLen) \cup ChunkStreams(MaxSubsections)
    \cup RegressionStreams

\* an in-memory Cursor, or a std stream that fails at offset k (k = the
\* length: a std stream that never fails before its end)
Readers(inner) ==
    {Cursor_new(inner)}
    \cup {[kind |-> "std", inner |-> inner, pos |-> 0, fail_at |-> {k}] :
             k \in 0..Len(inner)}

\* Module::new(Vec::new()): no section at all
EmptyModule ==
    [type_section |-> None, import_funcs |-> <<>>, function_section |-> <<>>,
     code_section |-> None]

\* a body with `c` locals: no Local entry, one, or two
Body(c) == IF c = 0 THEN <<>> ELSE IF c = 1 THEN <<1>> ELSE <<1, c - 1>>

\* modules of two signatures, at most one imported function and at most two
\* functions of their own
Modules ==
    {EmptyModule} \cup
    {[type_section |-> Some(types), import_funcs |-> imports,
      function_section |-> [i \in 1..Len(locals) |-> refs[i]],
      code_section |-> Some([i \in 1..Len(locals) |-> Body(locals[i])])] :
        types \in [1..2 -> 0..MaxCount],
        imports \in {<<>>, <<0>>},
        refs \in [1..2 -> 0..1],
        locals \in SeqsUpTo(0..MaxCount, 2)}

\* one signature of one parameter, k functions of one local each
ModuleWith(k) ==
    [type_section |-> Some(<<1>>), import_funcs |-> <<>>,
     function_section |-> [i \in 1..k |-> 0],
     code_section |-> Some([i \in 1..k |-> <<1>>])]

SmallModules == {EmptyModule, ModuleWith(1), ModuleWith(2), ModuleWith(3)}

\* the name given to index i: the names of neighbours differ
NameOf(i) == IF i % 2 = 0 THEN <<1>> ELSE <<2, 1>>
NameMapOn(D) == [i \in D |-> NameOf(i)]
NameMaps == {NameMapOn(D) : D \in SUBSET (0..MaxIndex)}
LocalMaps == UNION {[D -> NameMaps] : D \in SUBSET (0..1)}

NameSections ==
    {NameSection_new(mn, fn, ln) :
        mn \in {None, Some(<<>>), Some(<<1, 2>>)},
        fn \in {None} \cup {Some(x) : x \in NameMaps},
        ln \in {None} \cup {Some(x) : x \in LocalMaps}}

\* a local-name subsection alone, naming one local of one function
LocalOnly ==
    {NameSection_new(None, None, Some([f \in {fi} |-> NameMapOn({li})])) :
        fi \in 0..2, li \in 0..(2 * MaxCount)}

----------------------------------------------------------------------------
(* The state machine *)

NoOp == [op |-> "new", arg |-> 0, before |-> 0, out |-> Outcome(Ok(<<>>, 0))]

InitDecoder ==
    /\ module_name = None
    /\ function_names = None
    /\ local_names = None
    /\ headers = <<>>
    /\ last_op = NoOp

\* NameSection::deserialize(module, rdr) is called on a stream
Init ==
    /\ InitDecoder
    /\ module \in {EmptyModule, ModuleWith(2)}
    /\ \E inner \in RawStreams : rdr \in Readers(inner)
    /\ overflow_checks \in BOOLEAN
    /\ original = NameSection_new(None, None, None)
    /\ result = Running

\* a NameSection value is about to be serialized and read back
InitCodec ==
    /\ InitDecoder
    /\ \/ module \in SmallModules /\ original \in NameSections
       \/ module \in Modules /\ original \in LocalOnly
    /\ rdr = Cursor_new(<<>>)
    /\ overflow_checks \in BOOLEAN
    /\ result = Idle

\* a Cursor over a buffer, as in the tests of io.rs
InitCursor ==
    /\ InitDecoder
    /\ module = EmptyModule
    /\ \E n \in 0..MaxInner : rdr = Cursor_new([i \in 1..n |-> i - 1])
    /\ overflow_checks \in BOOLEAN
    /\ original = NameSection_new(None, None, None)
    /\ result = Idle

\* one round of the loop of NameSection::deserialize, or its end
Advance(it) ==
    /\ result' = it.res
    /\ rdr' = At(rdr, it.pos)
    /\ module_name' = it.mn
    /\ function_names' = it.fn
    /\ local_names' = it.ln
    /\ headers' = headers \o it.hdr

DeserializeIteration ==
    /\ result.st = "running"
    /\ Advance(NameSection_iteration(module, rdr, module_name, function_names,
                                     local_names))
    /\ UNCHANGED <<module, overflow_checks, original, last_op>>

\* original.serialize(&mut buffer), then a Cursor over the buffer
Written(w) ==
    IF w.st = "Ok"
    THEN rdr' = Cursor_new(w.val) /\ result' = Running
    ELSE rdr' = rdr /\ result' = [Outcome(w) EXCEPT !.st = "SerializeErr"]

Serialize ==
    /\ result.st = "idle"
    /\ Written(NameSection_serialize(original))
    /\ UNCHANGED <<module, overflow_checks, module_name, function_names,
                   local_names, headers, original, last_op>>

SeekOffsets == {I64Min, -2, -1, 0, 1, 2, 3, I64Max}

DoneRead(requested, out) ==
    /\ rdr' = At(rdr, out.pos)
    /\ last_op' = [op |-> "read", arg |-> requested, before |-> rdr.pos,
                   out |-> Outcome(out)]
    /\ result' = IF out.st = "panic" THEN Outcome(out) ELSE result

\* cursor.read(&mut buf[..requested])
CursorRead ==
    /\ result.st = "idle"
    /\ \E requested \in 0..(MaxInner + 1) :
          DoneRead(requested, Cursor_read(rdr, requested))
    /\ UNCHANGED <<module, overflow_checks, module_name, function_names,
                   local_names, headers, original>>

DoneSeek(offset, out) ==
    /\ rdr' = At(rdr, out.pos)
    /\ last_op' = [op |-> "seek_relative", arg |-> offset, before |-> rdr.pos,
                   out |-> Outcome(out)]

\* cursor.seek_relative(offset)
CursorSeek ==
    /\ result.st = "idle"
    /\ \E offset \in SeekOffsets : DoneSeek(offset, Cursor_seek_relative(rdr, offset))
    /\ UNCHANGED <<module, overflow_checks, module_name, function_names,
                   local_names, result, headers, original>>

Next == DeserializeIteration
NextCodec == Serialize \/ DeserializeIteration
NextCursor == CursorRead \/ CursorSeek

Spec == Init /\ [][Next]_vars
SpecCodec == InitCodec /\ [][NextCodec]_vars
SpecCursor == InitCursor /\ [][NextCursor]_vars

----------------------------------------------------------------------------
(* Properties *)

Known == {NAME_TYPE_MODULE, NAME_TYPE_FUNCTION, NAME_TYPE_LOCAL}
Done == result.st \in {"Ok", "Err", "panic"}
Decoded == NameSection_new(module_name, function_names, local_names)
Remaining(p) == IF p > Len(rdr.inner) THEN 0 ELSE Len(rdr.inner) - p

\* C1: a subsection with an unknown tag whose declared size is larger than
\* the bytes that remain after its header makes the decode fail with
\* UnexpectedEof; the decode neither goes on nor returns Ok.
C1_SkipPastEndFails ==
    \A i \in 1..Len(headers) :
        (headers[i].tag \notin Known /\ headers[i].size > Remaining(headers[i].start))
            => /\ i = Len(headers)
               /\ result.st = "Err"
               /\ result.err = "UnexpectedEof"

\* the regression input: tag u8::MAX, size u32::MAX, fewer bytes than that
C1_Witness ==
    /\ rdr.kind = "cursor"
    /\ Len(headers) = 1
    /\ headers[1].tag = 2 * Radix - 1
    /\ headers[1].size = U32Max
    /\ Len(rdr.inner) = headers[1].start + MaxLen
    /\ result.err = "UnexpectedEof"

\* C2: after the body of a subsection with a known tag is decoded, the
\* position is the position after the header plus the declared size.
C2_BodyConsumesDeclaredSize ==
    \A i \in 1..Len(headers) :
        (headers[i].tag \in Known /\ headers[i].ok)
            => headers[i].end = headers[i].start + headers[i].size

\* C3: once a subsection of a known kind is recorded, the header of a second
\* subsection of that kind ends the decode with DuplicatedNameSubsections,
\* whatever lies between the two.
C3_DuplicateRejected ==
    \A i, j \in 1..Len(headers) :
        (i < j /\ headers[i].tag \in Known /\ headers[i].ok
               /\ headers[j].tag = headers[i].tag)
            => /\ j = Len(headers)
               /\ result.st = "Err"
               /\ result.err = "DuplicatedNameSubsections"

\* two local-name subsections with an unknown subsection between them
C3_Witness ==
    /\ Len(headers) = 3
    /\ headers[1].tag = NAME_TYPE_LOCAL
    /\ headers[2].tag \notin Known
    /\ headers[3].tag = NAME_TYPE_LOCAL
    /\ result.err = "DuplicatedNameSubsections"

\* indices within the bounds the decoder applies for this module
Legal(v, m) ==
    /\ is_some(v.functions) =>
          \A i \in DOMAIN unwrap(v.functions) : i < functions_space(m)
    /\ is_some(v.locals) =>
          \A f \in DOMAIN unwrap(v.locals) :
              /\ f < functions_space(m)
              /\ \A i \in DOMAIN unwrap(v.locals)[f] :
                    i < max_signature_args(m) + max_locals(m)

\* C4: round trip: a NameSection whose indices are within the bounds of the
\* module is read back from its serialization, equal to the original.
C4_RoundTrip ==
    (Done /\ Legal(original, module))
        => (result.st = "Ok" /\ Decoded = original)

\* all three subsections, two entries in each map
C4_Witness ==
    /\ result.st = "Ok"
    /\ is_some(original.module) /\ Len(unwrap(original.module)) = 2
    /\ is_some(original.functions)
    /\ Cardinality(DOMAIN unwrap(original.functions)) = 2
    /\ is_some(original.locals)
    /\ DOMAIN unwrap(original.locals) = {0, 1}
    /\ Cardinality(DOMAIN unwrap(original.locals)[1]) = 2
    /\ Decoded = original

\* C5: a read of n bytes with fewer than n bytes remaining returns
\* UnexpectedEof and leaves the position where it was, in every state of the
\* Cursor, past the end included.
C5_ShortReadIsEof ==
    (last_op.op = "read"
        /\ last_op.arg > (IF last_op.before > Len(rdr.inner) THEN 0
                          ELSE Len(rdr.inner) - last_op.before))
        => /\ last_op.out.st = "Err"
           /\ last_op.out.err = "UnexpectedEof"
           /\ rdr.pos = last_op.before

\* C6: seek_relative moves the position by the signed offset when the sum is
\* in the range of the position, and fails with InvalidInput otherwise.
C6_SeekMovesBySignedOffset ==
    last_op.op = "seek_relative"
        => IF 0 <= last_op.before + last_op.arg
              /\ last_op.before + last_op.arg <= UsizeMax
           THEN last_op.out.st = "Ok" /\ rdr.pos = last_op.before + last_op.arg
           ELSE /\ last_op.out.st = "Err"
                /\ last_op.out.err = "InvalidInput"
                /\ rdr.pos = last_op.before

\* the largest parameter count of the signatures of the type section
LargestParams(m) ==
    IF is_some(m.type_section)
    THEN LET S == {unwrap(m.type_section)[i] : i \in 1..Len(unwrap(m.type_section))}
                    \cup {0}
         IN  CHOOSE x \in S : \A y \in S : y <= x
    ELSE 0

\* the largest number of locals of the bodies of the code section
LargestLocals(m) ==
    IF is_some(m.code_section)
    THEN LET S == {SumSeq(unwrap(m.code_section)[i]) :
                     i \in 1..Len(unwrap(m.code_section))} \cup {0}
         IN  CHOOSE x \in S : \A y \in S : y <= x
    ELSE 0

\* the local indices named by a value
LocalIndices(v) ==
    UNION {DOMAIN unwrap(v.locals)[f] : f \in DOMAIN unwrap(v.locals)}

\* a local-name subsection that reaches its inner maps: what precedes it is
\* legal and so are its function indices
ReachesLocals(v, m) ==
    /\ is_some(v.locals)
    /\ is_some(v.functions) =>
          \A i \in DOMAIN unwrap(v.functions) : i < functions_space(m)
    /\ \A f \in DOMAIN unwrap(v.locals) : f < functions_space(m)

C8_FunctionNamesBounded ==
    (Done /\ is_some(original.functions))
        => /\ result.st = "Ok"
                => /\ \A i \in DOMAIN unwrap(original.functions) :
                         i < functions_space(module)
                   /\ function_names = original.functions
           /\ (\E i \in DOMAIN unwrap(original.functions) :
                    i >= functions_space(module))
                => (result.st = "Err" /\ result.err = "IndexOutOfBounds"
                    /\ function_names = None)
           /\ ((\A i \in DOMAIN unwrap(original.functions) :
                    i < functions_space(module)) /\ original.locals = None)
                => result.st = "Ok"

\* entries {0, 1} against a function space of 1
C8_Witness ==
    /\ original.functions = Some(NameMapOn({0, 1}))
    /\ functions_space(module) = 1
    /\ result.st = "Err"
    /\ result.err = "IndexOutOfBounds"

\* C9: the decode returns Ok only when the tag could not be read because the
\* input is exhausted; a tag read that fails for another reason is an error.
C9_OkOnlyAtEndOfInput ==
    result.st = "Ok" => rdr.pos >= Len(rdr.inner)

\* C10: DuplicatedNameSubsections carries the tag of the repeated kind.
C10_DuplicateCarriesItsTag ==
    (result.st = "Err" /\ result.err = "DuplicatedNameSubsections")
        => result.tag = headers[Len(headers)].tag

====
